---- MODULE Spec2Model ----
(***************************************************************************)
(* Swiss-system tournament core of swyss (src/src/lib.rs) and its command  *)
(* line driver (src/src/main.rs).                                          *)
(*                                                                         *)
(* Players live in an arena `player` indexed by 1..N (the Rc<RefCell<>>    *)
(* handles of the source); a player's name is its index.  UUIDs are fresh  *)
(* values, modelled by a counter.  The thread-local random generator is    *)
(* modelled by a seed drawn from a bounded set for every shuffle.          *)
(***************************************************************************)
EXTENDS Integers, Sequences, FiniteSets, TLC

VARIABLES
    player,         \* arena: player id -> Player record
    players,        \* Tournament.players (Vec of handles)
    pairings,       \* Tournament.pairings (HashMap uuid -> Pairing)
    rounds,         \* Tournament.rounds
    current_round,  \* Tournament.current_round
    needs_bye,      \* Tournament.needs_bye
    uuids,          \* number of UUIDs generated so far
    pc,             \* "idle", or "pairing" inside next_round's retry loop
    bye,            \* next_round's local `bye` (0 = None)
    ret,            \* value returned by the last next_round call
    args,           \* arguments of the last end_match call
    result,         \* value returned by the last end_match call
    calls,          \* end_match calls made since the last next_round call
    entry,          \* opponent histories on entry to the last next_round call
    driver          \* position of the caller's loop

vars == <<player, players, pairings, rounds, current_round, needs_bye,
          uuids, pc, bye, ret, args, result, calls, entry, driver>>

-----------------------------------------------------------------------------
(* Bounds *)

MaxPlayers == 3        \* roster sizes 0..MaxPlayers under Spec
MaxMainPlayers == 9    \* roster sizes 0..MaxMainPlayers under SpecMain
MaxSeed == 3           \* seeds 0..MaxSeed-1 of the random generator
MaxCalls == 2          \* end_match calls per round under Spec
MaxExtraRounds == 2    \* next_round calls after the last round
MaxScore == 4          \* score arguments 0..MaxScore (plus the u8 extremes)
MaxPairingCalls == 2   \* Pairing calls under SpecPairing
MaxUuids == 40         \* UUIDs generated before the retry loop is cut off
MaxRankSeed == 12      \* seeds 0..MaxRankSeed-1 of the shuffle in ranking
MaxStandingsPlayers == 5  \* roster sizes 0..MaxStandingsPlayers under SpecStandings
MaxUnitCalls == 3      \* method calls under SpecUnits
MaxStrengthPlayers == 9  \* roster sizes 0..MaxStrengthPlayers under SpecStrength
MaxTapePlayers == 12   \* roster sizes 0..MaxTapePlayers under SpecTape

Seeds == 0 .. (MaxSeed - 1)

RankSeeds == 0 .. (MaxRankSeed - 1)

-----------------------------------------------------------------------------
(* Generic helpers *)

Range(s) == {s[i] : i \in 1 .. Len(s)}

Contains(s, x) == \E i \in 1 .. Len(s) : s[i] = x

RemoveAt(s, i) == [j \in 1 .. (Len(s) - 1) |-> IF j < i THEN s[j] ELSE s[j + 1]]

Swap(s, i, j) == [s EXCEPT ![i] = s[j], ![j] = s[i]]

RECURSIVE Factorial(_)
Factorial(n) == IF n <= 1 THEN 1 ELSE n * Factorial(n - 1)

U8 == 256

\* u8 addition (wrapping, as in a release build)
U8Add(x, y) == (x + y) % U8

-----------------------------------------------------------------------------
(* Random generator: slice.shuffle(&mut rng) walks i from the last index   *)
(* down to the second and swaps element i with a uniformly drawn element   *)
(* of 0..=i.  The draws are the mixed-radix digits of the seed; a seed is   *)
(* below 13!, so its digits from the fourteenth on are 0.                  *)

RngIndex(seed, i) == IF i > 13 THEN 0 ELSE (seed \div Factorial(i - 1)) % i

RECURSIVE ShuffleFrom(_, _, _)
ShuffleFrom(s, i, seed) ==
    IF i < 2 THEN s
    ELSE ShuffleFrom(Swap(s, i, 1 + RngIndex(seed, i)), i - 1, seed)

Shuffle(s, seed) == ShuffleFrom(s, Len(s), seed)

-----------------------------------------------------------------------------
(* Player *)

Player_new ==
    [match_points |-> 0, game_points |-> 0, matches_played |-> 0,
     games_played |-> 0, opponents |-> <<>>, has_bye |-> FALSE]

lose_game(p) == [p EXCEPT !.games_played = @ + 1]

\* draw_game that scores the draw like a win
draw_game_AsWin(p) == [p EXCEPT !.games_played = @ + 1, !.game_points = @ + 3]

draw_game(p) == [p EXCEPT !.games_played = @ + 1, !.game_points = @ + 1]

\* win_game that scores the points without counting the game
win_game_Uncounted(p) == [p EXCEPT !.game_points = @ + 3]

win_game(p) == [p EXCEPT !.games_played = @ + 1, !.game_points = @ + 3]

lose_match(p) == [p EXCEPT !.matches_played = @ + 1]

draw_match(p) == [p EXCEPT !.matches_played = @ + 1, !.match_points = @ + 1]

win_match(p) == [p EXCEPT !.matches_played = @ + 1, !.match_points = @ + 3]

\* bye() without `self.has_bye = true`
Player_bye_NoFlag(p) == win_match(win_game(win_game(p)))

Player_bye(p) == [win_match(win_game(win_game(p))) EXCEPT !.has_bye = TRUE]

-----------------------------------------------------------------------------
(* Pairing: a record [home, away] of player ids; the arena `pl` carries    *)
(* the two players' records.                                               *)

\* new() that pushes away to home's history only
Pairing_new_HomeOnly(pl, home, away) ==
    [pl EXCEPT ![home].opponents = Append(@, away)]

Pairing_new(pl, home, away) ==
    LET pl1 == [pl EXCEPT ![home].opponents = Append(@, away)]
    IN  [pl1 EXCEPT ![away].opponents = Append(@, home)]

\* win_game that also books the match for the winner
Pairing_win_game_WithMatch(pl, pair, side) ==
    LET winner == IF side = "Home" THEN pair.home ELSE pair.away
        loser == IF side = "Home" THEN pair.away ELSE pair.home
        pl1 == [pl EXCEPT ![winner] = win_match(win_game(@))]
    IN  [pl1 EXCEPT ![loser] = lose_game(@)]

\* side is "Home" or "Away"
Pairing_win_game(pl, pair, side) ==
    LET winner == IF side = "Home" THEN pair.home ELSE pair.away
        loser == IF side = "Home" THEN pair.away ELSE pair.home
        pl1 == [pl EXCEPT ![winner] = win_game(@)]
    IN  [pl1 EXCEPT ![loser] = lose_game(@)]

Pairing_draw_game(pl, pair) ==
    LET pl1 == [pl EXCEPT ![pair.home] = draw_game(@)]
    IN  [pl1 EXCEPT ![pair.away] = draw_game(@)]

\* check_range over lo..=hi
check_range_Inclusive(value, lo, hi) == lo <= value /\ value <= hi

\* value.check_range(lo..hi): the range excludes hi
check_range(value, lo, hi) == lo <= value /\ value < hi

RECURSIVE WinGames(_, _, _, _)
WinGames(pl, pair, side, n) ==
    IF n = 0 THEN pl ELSE WinGames(Pairing_win_game(pl, pair, side), pair, side, n - 1)

RECURSIVE DrawGames(_, _, _)
DrawGames(pl, pair, n) ==
    IF n = 0 THEN pl ELSE DrawGames(Pairing_draw_game(pl, pair), pair, n - 1)

\* the match awarded to home when the scores are equal
AwardMatch_TieToHome(pl, pair, home_score, away_score) ==
    IF home_score >= away_score THEN
        LET pl1 == [pl EXCEPT ![pair.home] = win_match(@)]
        IN  [pl1 EXCEPT ![pair.away] = lose_match(@)]
    ELSE
        LET pl1 == [pl EXCEPT ![pair.home] = lose_match(@)]
        IN  [pl1 EXCEPT ![pair.away] = win_match(@)]

AwardMatch(pl, pair, home_score, away_score) ==
    IF home_score > away_score THEN
        LET pl1 == [pl EXCEPT ![pair.home] = win_match(@)]
        IN  [pl1 EXCEPT ![pair.away] = lose_match(@)]
    ELSE IF away_score > home_score THEN
        LET pl1 == [pl EXCEPT ![pair.home] = lose_match(@)]
        IN  [pl1 EXCEPT ![pair.away] = win_match(@)]
    ELSE
        LET pl1 == [pl EXCEPT ![pair.home] = draw_match(@)]
        IN  [pl1 EXCEPT ![pair.away] = draw_match(@)]

Ok == [tag |-> "Ok", value |-> 0]
OutOfRange(v) == [tag |-> "OutOfRange", value |-> v]
NotFound(u) == [tag |-> "NotFound", value |-> u]
Unset == [tag |-> "Unset", value |-> 0]

\* the sum checked before the three scores
EndMatchCheck_SumFirst(home_score, away_score, drawn) ==
    LET sum == U8Add(U8Add(home_score, away_score), drawn)
    IN  IF ~check_range(sum, 1, 4) THEN OutOfRange(sum)
        ELSE IF ~check_range(home_score, 0, 3) THEN OutOfRange(home_score)
        ELSE IF ~check_range(away_score, 0, 3) THEN OutOfRange(away_score)
        ELSE IF ~check_range(drawn, 0, 4) THEN OutOfRange(drawn)
        ELSE Ok

\* The first failing check of Pairing::end_match, or Ok
EndMatchCheck(home_score, away_score, drawn) ==
    IF ~check_range(home_score, 0, 3) THEN OutOfRange(home_score)
    ELSE IF ~check_range(away_score, 0, 3) THEN OutOfRange(away_score)
    ELSE IF ~check_range(drawn, 0, 4) THEN OutOfRange(drawn)
    ELSE LET sum == U8Add(U8Add(home_score, away_score), drawn)
         IN  IF ~check_range(sum, 1, 4) THEN OutOfRange(sum) ELSE Ok

\* end_match with the sum checked after the won games are applied
Pairing_end_match_LateSumCheck(pl, pair, home_score, away_score, drawn) ==
    IF ~check_range(home_score, 0, 3) THEN [res |-> OutOfRange(home_score), pl |-> pl]
    ELSE IF ~check_range(away_score, 0, 3) THEN [res |-> OutOfRange(away_score), pl |-> pl]
    ELSE IF ~check_range(drawn, 0, 4) THEN [res |-> OutOfRange(drawn), pl |-> pl]
    ELSE LET pl1 == WinGames(pl, pair, "Home", home_score)
             pl2 == WinGames(pl1, pair, "Away", away_score)
             sum == U8Add(U8Add(home_score, away_score), drawn)
         IN  IF ~check_range(sum, 1, 4) THEN [res |-> OutOfRange(sum), pl |-> pl2]
             ELSE [res |-> Ok,
                   pl |-> AwardMatch(DrawGames(pl2, pair, drawn), pair, home_score, away_score)]

\* Pairing::end_match: the returned value and the arena afterwards
Pairing_end_match(pl, pair, home_score, away_score, drawn) ==
    LET chk == EndMatchCheck(home_score, away_score, drawn)
    IN  IF chk.tag # "Ok" THEN [res |-> chk, pl |-> pl]
        ELSE LET pl1 == WinGames(pl, pair, "Home", home_score)
                 pl2 == WinGames(pl1, pair, "Away", away_score)
                 pl3 == DrawGames(pl2, pair, drawn)
             IN  [res |-> Ok, pl |-> AwardMatch(pl3, pair, home_score, away_score)]

-----------------------------------------------------------------------------
(* Tournament *)

\* (num_players as f64).log2().ceil() as u32; the cast of -inf saturates to 0
RECURSIVE FloorLog2(_)
FloorLog2(n) == IF n <= 1 THEN 0 ELSE 1 + FloorLog2(n \div 2)

RECURSIVE Pow2(_)
Pow2(k) == IF k = 0 THEN 1 ELSE 2 * Pow2(k - 1)

\* log2() cast to u32 without ceil()
Log2Ceil_Truncated(n) == FloorLog2(n)

Log2Ceil(n) ==
    IF n = 0 THEN 0
    ELSE IF Pow2(FloorLog2(n)) = n THEN FloorLog2(n) ELSE FloorLog2(n) + 1

Tournament_rounds(num_players) == Log2Ceil(num_players)

\* the two branches of needs_bye swapped
Tournament_needs_bye_Swapped(num_players) == IF num_players % 2 = 0 THEN TRUE ELSE FALSE

Tournament_needs_bye(num_players) == IF num_players % 2 = 0 THEN FALSE ELSE TRUE

\* iter.min_by_key(match_points) over the players of s without a bye: the
\* first of the minimal elements, 0 when there is none
RECURSIVE MinByKey(_, _, _, _)
MinByKey(s, pl, i, best) ==
    IF i > Len(s) THEN best
    ELSE IF pl[s[i]].has_bye THEN MinByKey(s, pl, i + 1, best)
    ELSE IF best = 0 \/ pl[s[i]].match_points < pl[best].match_points
         THEN MinByKey(s, pl, i + 1, s[i])
         ELSE MinByKey(s, pl, i + 1, best)

IndexOf(s, x) == CHOOSE i \in 1 .. Len(s) : s[i] = x /\ \A j \in 1 .. (i - 1) : s[j] # x

\* grant_bye that takes the first competitor without a bye, whatever its points
grant_bye_FirstEligible(pl, roster, needs, seed) ==
    IF ~needs THEN [bye |-> 0, players |-> roster, pl |-> pl]
    ELSE LET shuffled == Shuffle(roster, seed)
             eligible == SelectSeq(shuffled, LAMBDA x : ~pl[x].has_bye)
             b == IF Len(eligible) = 0 THEN 0 ELSE eligible[1]
         IN  IF b = 0 THEN [bye |-> 0, players |-> shuffled, pl |-> pl]
             ELSE [bye |-> b,
                   players |-> RemoveAt(shuffled, IndexOf(shuffled, b)),
                   pl |-> [pl EXCEPT ![b] = Player_bye(@)]]

\* Tournament::grant_bye: the bye (0 = None), the roster and the arena afterwards
grant_bye(pl, roster, needs, seed) ==
    IF ~needs THEN [bye |-> 0, players |-> roster, pl |-> pl]
    ELSE LET shuffled == Shuffle(roster, seed)
             b == MinByKey(shuffled, pl, 1, 0)
         IN  IF b = 0 THEN [bye |-> 0, players |-> shuffled, pl |-> pl]
             ELSE [bye |-> b,
                   players |-> RemoveAt(shuffled, IndexOf(shuffled, b)),
                   pl |-> [pl EXCEPT ![b] = Player_bye(@)]]

-----------------------------------------------------------------------------
(* f64.  Every value the program computes is NaN or a non-negative finite  *)
(* number: a record [nan, hi, lo, exp] stands for sig * 2^exp with the     *)
(* 53-bit significand sig = hi * 2^27 + lo, 2^25 <= hi < 2^26, and 0.0 has *)
(* hi = lo = 0.  Every operation rounds its exact result to the nearest     *)
(* f64, ties to even, as IEEE 754 prescribes.                               *)

PowersOfTwo ==
    <<1, 2, 4, 8, 16, 32, 64, 128, 256, 512, 1024, 2048, 4096, 8192,
      16384, 32768, 65536, 131072, 262144, 524288, 1048576, 2097152,
      4194304, 8388608, 16777216, 33554432, 67108864, 134217728>>

\* 2^k for k in 0 .. 27
TwoTo(k) == PowersOfTwo[k + 1]

\* the significand is kept in two limbs, hi < HiBase above lo < LoBase
LoBase == TwoTo(27)
HiBase == TwoTo(26)
HiTop == TwoTo(25)

F64(h, l, e) == [nan |-> FALSE, hi |-> h, lo |-> l, exp |-> e]

F64Zero == F64(0, 0, 0)

\* 0.0 / 0.0
NaN == [nan |-> TRUE, hi |-> 0, lo |-> 0, exp |-> 0]

\* a.partial_cmp(b) = Some(Less)
F64Less(a, b) ==
    /\ ~a.nan
    /\ ~b.nan
    /\ b.hi # 0
    /\ \/ a.hi = 0
       \/ a.exp < b.exp
       \/ a.exp = b.exp /\ a.hi < b.hi
       \/ a.exp = b.exp /\ a.hi = b.hi /\ a.lo < b.lo

\* a.max(b) for two numbers
F64Max(a, b) == IF F64Less(a, b) THEN b ELSE a

\* Rounding to nearest, ties to even: half is the first bit below the
\* significand <<h, l>>, rest says that a bit below it is set
F64Round(h, l, e, half, rest) ==
    IF half = 1 /\ (rest \/ l % 2 = 1)
    THEN IF l + 1 < LoBase THEN F64(h, l + 1, e)
         ELSE IF h + 1 < HiBase THEN F64(h + 1, 0, e)
         ELSE F64(HiTop, 0, e + 1)
    ELSE F64(h, l, e)

RECURSIVE BitLength(_)
BitLength(n) == IF n = 0 THEN 0 ELSE 1 + BitLength(n \div 2)

\* `n as f64` for a u32 n, exact (the counters of the model stay below 2^26)
F64FromInt(n) ==
    IF n = 0 THEN F64Zero
    ELSE LET k == BitLength(n) IN F64(n * TwoTo(26 - k), 0, k - 53)

\* x = [hi, lo, half, rest] moved d bits to the right: half is the last bit
\* that leaves the limbs and rest says that a bit below it was set
RECURSIVE ShiftRight(_, _)
ShiftRight(x, d) ==
    IF d = 0 THEN x
    ELSE IF d > 26 THEN ShiftRight(ShiftRight(x, 26), d - 26)
    ELSE LET out == x.lo % TwoTo(d)
         IN  [hi |-> x.hi \div TwoTo(d),
              lo |-> (x.lo \div TwoTo(d)) + (x.hi % TwoTo(d)) * TwoTo(27 - d),
              half |-> out \div TwoTo(d - 1),
              rest |-> out % TwoTo(d - 1) # 0 \/ x.half = 1 \/ x.rest]

\* a + b: the significand of the smaller exponent is aligned, the sum is
\* renormalised and rounded once
F64Add(a, b) ==
    IF a.nan \/ b.nan THEN NaN
    ELSE IF a.hi = 0 THEN b
    ELSE IF b.hi = 0 THEN a
    ELSE LET big == IF a.exp >= b.exp THEN a ELSE b
             small == IF a.exp >= b.exp THEN b ELSE a
             d == big.exp - small.exp
             s == ShiftRight([hi |-> small.hi, lo |-> small.lo,
                              half |-> 0, rest |-> FALSE],
                             IF d > 55 THEN 55 ELSE d)
             l == big.lo + s.lo
             sum == [hi |-> big.hi + s.hi + (l \div LoBase), lo |-> l % LoBase,
                     half |-> s.half, rest |-> s.rest]
             carry == sum.hi >= HiBase
             n == IF carry THEN ShiftRight(sum, 1) ELSE sum
         IN  F64Round(n.hi, n.lo, IF carry THEN big.exp + 1 ELSE big.exp,
                      n.half, n.rest)

P13 == TwoTo(13)
P14 == TwoTo(14)

\* a / (n as f64) for an integer 0 < n < 2^12, which `as f64` and `3.0 *`
\* represent exactly; the program divides by 0.0 only the sum 0.0 of an empty
\* history.  The significand is divided by n in four pieces from the top
\* (q1 .. q4, remainder r4), then t more bits (f, remainder r5) fill the
\* quotient up to 53 bits, and r5 decides the rounding.
F64DivInt(a, n) ==
    IF a.nan \/ n = 0 THEN NaN
    ELSE IF a.hi = 0 THEN F64Zero
    ELSE LET q1 == (a.hi \div P13) \div n
             r1 == (a.hi \div P13) % n
             q2 == (r1 * P13 + (a.hi % P13)) \div n
             r2 == (r1 * P13 + (a.hi % P13)) % n
             q3 == (r2 * P14 + (a.lo \div P13)) \div n
             r3 == (r2 * P14 + (a.lo \div P13)) % n
             q4 == (r3 * P13 + (a.lo % P13)) \div n
             r4 == (r3 * P13 + (a.lo % P13)) % n
             qh == q1 * P13 + q2
             ql == q3 * P13 + q4
             b == BitLength(n)
             t == IF a.hi < n * TwoTo(26 - b) THEN b ELSE b - 1
             f == (r4 * TwoTo(t)) \div n
             r5 == (r4 * TwoTo(t)) % n
         IN  F64Round(qh * TwoTo(t) + (ql \div TwoTo(27 - t)),
                      (ql % TwoTo(27 - t)) * TwoTo(t) + f,
                      a.exp - t,
                      IF 2 * r5 >= n THEN 1 ELSE 0, 2 * r5 > n)

\* 1.0 / 3.0
OneThird == F64DivInt(F64FromInt(1), 3)

\* match points over possible match points, without the floor of 1/3
match_win_percentage_NoFloor(p) ==
    IF p.matches_played = 0 THEN OneThird
    ELSE F64DivInt(F64FromInt(p.match_points), 3 * p.matches_played)

match_win_percentage(p) ==
    LET default == OneThird
    IN  IF p.matches_played = 0 THEN default
        ELSE F64Max(default,
                    F64DivInt(F64FromInt(p.match_points), 3 * p.matches_played))

game_win_percentage(p) ==
    LET default == OneThird
    IN  IF p.games_played = 0 THEN default
        ELSE F64Max(default,
                    F64DivInt(F64FromInt(p.game_points), 3 * p.games_played))

\* the local omwp after the loop has run over the entries i .. Len(opps) of
\* the history: it adds from 0.0, in history order, and every addition
\* rounds, so the last entry is the last one added
RECURSIVE SumMwp(_, _, _)
SumMwp(pl, opps, i) ==
    IF i > Len(opps) THEN F64Zero
    ELSE F64Add(SumMwp(pl, SubSeq(opps, 1, Len(opps) - 1), i),
                match_win_percentage(pl[opps[Len(opps)]]))

RECURSIVE SumGwp(_, _, _)
SumGwp(pl, opps, i) ==
    IF i > Len(opps) THEN F64Zero
    ELSE F64Add(SumGwp(pl, SubSeq(opps, 1, Len(opps) - 1), i),
                game_win_percentage(pl[opps[Len(opps)]]))

\* the sum divided by the matches played, byes included
opponents_match_win_percentage_PerMatch(pl, x) ==
    F64DivInt(SumMwp(pl, pl[x].opponents, 1),
              pl[x].matches_played)

opponents_match_win_percentage(pl, x) ==
    F64DivInt(SumMwp(pl, pl[x].opponents, 1),
              Len(pl[x].opponents))

opponents_game_win_percentage(pl, x) ==
    F64DivInt(SumGwp(pl, pl[x].opponents, 1),
              Len(pl[x].opponents))

-----------------------------------------------------------------------------
(* Sort keys: a u32 counter or an f64 *)

U32Key(n) == [int |-> n]

\* a.cmp(b) = Less for two counters, a.partial_cmp(b) = Some(Less) for two f64
KeyBelow(a, b) ==
    IF "int" \in DOMAIN a THEN a.int < b.int ELSE F64Less(a, b)

-----------------------------------------------------------------------------
(* Vec::sort_by: a stable sort.  key maps the elements of s to their keys;  *)
(* desc is TRUE for the comparator b.cmp(a).                                *)

\* x sorts strictly before y
Before(key, desc, x, y) ==
    IF desc THEN KeyBelow(key[y], key[x]) ELSE KeyBelow(key[x], key[y])

RECURSIVE InsertStable(_, _, _, _, _)
InsertStable(sorted, x, key, desc, i) ==
    IF i > Len(sorted) THEN Append(sorted, x)
    ELSE IF Before(key, desc, x, sorted[i])
         THEN SubSeq(sorted, 1, i - 1) \o <<x>> \o SubSeq(sorted, i, Len(sorted))
         ELSE InsertStable(sorted, x, key, desc, i + 1)

RECURSIVE StableSortFrom(_, _, _, _, _)
StableSortFrom(s, key, desc, i, sorted) ==
    IF i > Len(s) THEN sorted
    ELSE StableSortFrom(s, key, desc, i + 1, InsertStable(sorted, s[i], key, desc, 1))

StableSort(s, key, desc) == StableSortFrom(s, key, desc, 1, <<>>)

\* the queue left as the shuffle made it
SortByMatchPoints_Unsorted(s, pl) == s

\* player_queue.sort_by(|a, b| a.match_points.cmp(&b.match_points))
SortByMatchPoints(s, pl) ==
    StableSort(s, [x \in Range(s) |-> U32Key(pl[x].match_points)], FALSE)

-----------------------------------------------------------------------------
(* Tournament::next_round, the body of `while repeat`                      *)

\* The index at which the scan for away stops: the highest index whose player
\* is not in opps, or the first index when there is none
\* the scan from the low-points end of the queue upward
RECURSIVE ScanAway_FromLow(_, _, _)
ScanAway_FromLow(queue, opps, i) ==
    LET j == Len(queue) + 1 - i
    IN  IF ~Contains(opps, queue[j]) THEN j
        ELSE IF i = 1 THEN 1
        ELSE ScanAway_FromLow(queue, opps, i - 1)

RECURSIVE ScanAway(_, _, _)
ScanAway(queue, opps, i) ==
    IF ~Contains(opps, queue[i]) THEN i
    ELSE IF i = 1 THEN i
    ELSE ScanAway(queue, opps, i - 1)

\* `while let Some(home) = player_queue.pop()`: st carries the queue, the
\* arena, the UUID counter, the pairing table and the result list
RECURSIVE PairLoop(_)
PairLoop(st) ==
    IF Len(st.queue) = 0 THEN st
    ELSE
        LET home == st.queue[Len(st.queue)]
            rest == SubSeq(st.queue, 1, Len(st.queue) - 1)
        IN  IF Len(rest) = 0 THEN [st EXCEPT !.queue = rest]
            ELSE
                LET i == ScanAway(rest, st.pl[home].opponents, Len(rest))
                    away == rest[i]
                    removed == ~Contains(st.pl[home].opponents, away)
                    uuid == st.uuids + 1
                IN  PairLoop([queue |-> IF removed THEN RemoveAt(rest, i) ELSE rest,
                              pl |-> Pairing_new(st.pl, home, away),
                              uuids |-> uuid,
                              pairings |-> st.pairings @@ (uuid :> [home |-> home, away |-> away]),
                              ret |-> Append(st.ret, <<uuid, home, away>>)])

\* a pass that emits no result entry for its first pairing
PairingPass_FirstUnlisted(pl, roster, count, seed) ==
    LET a == PairLoop([queue |-> SortByMatchPoints(Shuffle(roster, seed), pl),
                       pl |-> pl,
                       uuids |-> count,
                       pairings |-> << >>,
                       ret |-> << >>])
    IN  [a EXCEPT !.ret = IF Len(@) = 0 THEN @ ELSE Tail(@)]

\* One pass of the retry loop: shuffle, sort, clear, pair
PairingPass(pl, roster, count, seed) ==
    PairLoop([queue |-> SortByMatchPoints(Shuffle(roster, seed), pl),
              pl |-> pl,
              uuids |-> count,
              pairings |-> << >>,
              ret |-> << >>])

-----------------------------------------------------------------------------
(* Tournament::ranking *)

\* Vec::sort_by on a slice of at most 20 elements is an insertion sort; the
\* standard library has had two of them.  Both agree with StableSort when the
\* comparator is a total order, which partial_cmp(..).unwrap_or(Equal) is not
\* when a NaN key meets two keys that differ.  On a longer slice sort_by is
\* a merge sort: with a total order it leaves the one stable order, without
\* one the order it leaves is unspecified and, since Rust 1.81, it may panic
\* ("user-provided comparison function does not correctly implement a total
\* order").

\* The outcome of a sort_by that panicked: no roster, competitors are numbered
\* from 1
Panicked == <<0>>

\* The comparator of sort_by is a total order on the elements of s: comparing
\* Equal is transitive
TotalOrder(s, key, desc) ==
    LET Equal(x, y) == ~Before(key, desc, x, y) /\ ~Before(key, desc, y, x)
    IN  \A x \in Range(s), y \in Range(s), z \in Range(s) :
            (Equal(x, y) /\ Equal(y, z)) => Equal(x, z)

\* The orders of the elements of s
Orders(s) ==
    {p \in [1 .. Len(s) -> Range(s)] : \A i \in 1 .. Len(s), j \in 1 .. Len(s) : p[i] = p[j] => i = j}

\* insertion_sort_shift_left: the index after which x goes into `sorted`,
\* walking down from j while x sorts strictly before sorted[j]
RECURSIVE ShiftLeftIndex(_, _, _, _, _)
ShiftLeftIndex(sorted, x, key, desc, j) ==
    IF j >= 1 /\ Before(key, desc, x, sorted[j])
    THEN ShiftLeftIndex(sorted, x, key, desc, j - 1)
    ELSE j

RECURSIVE InsertionSortShiftLeft(_, _, _, _, _)
InsertionSortShiftLeft(s, key, desc, i, sorted) ==
    IF i > Len(s) THEN sorted
    ELSE LET j == ShiftLeftIndex(sorted, s[i], key, desc, Len(sorted))
         IN  InsertionSortShiftLeft(s, key, desc, i + 1,
                 SubSeq(sorted, 1, j) \o <<s[i]>> \o SubSeq(sorted, j + 1, Len(sorted)))

\* insert_head: the index before which x goes into `sorted`, walking up from
\* k while sorted[k] sorts strictly before x
RECURSIVE InsertHeadIndex(_, _, _, _, _)
InsertHeadIndex(sorted, x, key, desc, k) ==
    IF k <= Len(sorted) /\ Before(key, desc, sorted[k], x)
    THEN InsertHeadIndex(sorted, x, key, desc, k + 1)
    ELSE k

RECURSIVE InsertionSortInsertHead(_, _, _, _, _)
InsertionSortInsertHead(s, key, desc, i, sorted) ==
    IF i < 1 THEN sorted
    ELSE LET k == InsertHeadIndex(sorted, s[i], key, desc, 1)
         IN  InsertionSortInsertHead(s, key, desc, i - 1,
                 SubSeq(sorted, 1, k - 1) \o <<s[i]>> \o SubSeq(sorted, k, Len(sorted)))

\* a sort that keeps one competitor of each group with equal keys
SortOutcomes_Dedup(s, key, desc) ==
    {SelectSeq(InsertionSortShiftLeft(s, key, desc, 1, << >>),
               LAMBDA x : \A y \in Range(s) : key[x] = key[y] => x <= y)}

\* The outcomes of sort_by on s
SortOutcomes(s, key, desc) ==
    IF Len(s) <= 20
    THEN {InsertionSortShiftLeft(s, key, desc, 1, << >>),
          InsertionSortInsertHead(s, key, desc, Len(s), << >>)}
    ELSE IF TotalOrder(s, key, desc) THEN {StableSort(s, key, desc)}
    ELSE {Panicked} \cup Orders(s)

\* The values the four comparators of ranking read for competitors 1 .. n
RECURSIVE RankingKeys(_, _)
RankingKeys(pl, n) ==
    IF n = 0 THEN << >>
    ELSE Append(RankingKeys(pl, n - 1),
                [ogwp |-> opponents_game_win_percentage(pl, n),
                 gwp |-> game_win_percentage(pl[n]),
                 omwp |-> opponents_match_win_percentage(pl, n),
                 mp |-> U32Key(pl[n].match_points)])

\* ranking without the last sort, the one by match points
RankingOutcomes_NoMatchPoints(pl, shuffled) ==
    LET ids == Range(shuffled)
        keys == RankingKeys(pl, Len(pl))
        ogwp == [x \in ids |-> keys[x].ogwp]
        gwp == [x \in ids |-> keys[x].gwp]
        omwp == [x \in ids |-> keys[x].omwp]
        s1 == SortOutcomes(shuffled, ogwp, TRUE)
        s2 == UNION {SortOutcomes(s, gwp, TRUE) : s \in s1}
    IN  UNION {SortOutcomes(s, omwp, TRUE) : s \in s2}

\* x stands before y by the keys ks[k + 1] .. ks[Len(ks)], the last of them
\* the most significant, all descending
LexBefore(ks, k, x, y) ==
    \E m \in (k + 1) .. Len(ks) :
        /\ Before(ks[m], TRUE, x, y)
        /\ \A h \in (m + 1) .. Len(ks) :
               ~Before(ks[h], TRUE, x, y) /\ ~Before(ks[h], TRUE, y, x)

\* p is in the order of the sorts by ks[k + 1] .. ks[Len(ks)]
SortedAfter(p, ks, k) ==
    \A i \in 1 .. Len(p), j \in 1 .. Len(p) : i < j => ~LexBefore(ks, k, p[j], p[i])

\* The four sorts of ranking, least significant key first, keys[x] holding
\* the values the comparators read for x.  On a roster of more than 20 a sort
\* whose comparator is no total order panics or leaves any order, which the
\* sorts after it, if their comparators are total orders, put in their order.
RankingSorts(keys, shuffled) ==
    LET ids == Range(shuffled)
        ogwp == [x \in ids |-> keys[x].ogwp]
        gwp == [x \in ids |-> keys[x].gwp]
        omwp == [x \in ids |-> keys[x].omwp]
        mp == [x \in ids |-> keys[x].mp]
        ks == <<ogwp, gwp, omwp, mp>>
        broken == {k \in 1 .. 4 : ~TotalOrder(shuffled, ks[k], TRUE)}
        s1 == SortOutcomes(shuffled, ogwp, TRUE)
        s2 == UNION {SortOutcomes(s, gwp, TRUE) : s \in s1}
        s3 == UNION {SortOutcomes(s, omwp, TRUE) : s \in s2}
    IN  IF Len(shuffled) <= 20 \/ broken = {}
        THEN UNION {SortOutcomes(s, mp, TRUE) : s \in s3}
        ELSE {Panicked} \cup
             {p \in Orders(shuffled) :
                 SortedAfter(p, ks, CHOOSE k \in broken : \A h \in broken : h <= k)}

\* The outcomes of ranking

RankingOutcomes(pl, shuffled) == RankingSorts(RankingKeys(pl, Len(pl)), shuffled)


-----------------------------------------------------------------------------
(* Tournament::end_match *)

\* the scores validated before the lookup
Tournament_end_match_ScoresFirst(pl, table, uuid, home_score, away_score, drawn) ==
    LET chk == EndMatchCheck(home_score, away_score, drawn)
    IN  IF chk.tag # "Ok" THEN [res |-> OutOfRange(chk.value), pl |-> pl]
        ELSE IF uuid \in DOMAIN table THEN
            [res |-> Ok,
             pl |-> Pairing_end_match(pl, table[uuid], home_score, away_score, drawn).pl]
        ELSE [res |-> NotFound(uuid), pl |-> pl]

Tournament_end_match(pl, table, uuid, home_score, away_score, drawn) ==
    IF uuid \in DOMAIN table THEN
        LET r == Pairing_end_match(pl, table[uuid], home_score, away_score, drawn)
        IN  IF r.res.tag = "Ok" THEN [res |-> Ok, pl |-> r.pl]
            ELSE [res |-> OutOfRange(r.res.value), pl |-> r.pl]
    ELSE [res |-> NotFound(uuid), pl |-> pl]

-----------------------------------------------------------------------------
(* State machine *)

None == [tag |-> "None", list |-> << >>]
Some(list) == [tag |-> "Some", list |-> list]
NoCall == [tag |-> "NoCall", list |-> << >>]

NoArgs == [uuid |-> 0, home_score |-> 0, away_score |-> 0, drawn |-> 0]
Args(u, h, a, d) == [uuid |-> u, home_score |-> h, away_score |-> a, drawn |-> d]

Histories(pl) == [x \in DOMAIN pl |-> pl[x].opponents]

\* Tournament::new on a roster of n fresh players
Tournament_new(n) ==
    /\ player = [x \in 1 .. n |-> Player_new]
    /\ players = [x \in 1 .. n |-> x]
    /\ pairings = << >>
    /\ rounds = Tournament_rounds(n)
    /\ current_round = 0
    /\ needs_bye = Tournament_needs_bye(n)
    /\ uuids = 0
    /\ pc = "idle"
    /\ bye = 0
    /\ ret = NoCall
    /\ args = NoArgs
    /\ result = Unset
    /\ calls = 0
    /\ entry = [x \in 1 .. n |-> << >>]

\* main.rs: where the `while let` loop goes when next_round has returned r
DriverAfterNextRound(d, r) ==
    IF d.pc # "loop" THEN d
    ELSE IF r.tag = "None" THEN [pc |-> "ranking", i |-> 0]
    ELSE IF Len(r.list) = 0 THEN d
    ELSE [pc |-> "read", i |-> 1]

\* self.current_round >= self.rounds
NoMoreRounds_OffByOne(current, total) == current >= total

\* self.current_round > self.rounds
NoMoreRounds(current, total) == current > total

\* the pairing table cleared before the terminal signal
ReturnNone_Clearing ==
    /\ ret' = None
    /\ pairings' = << >>
    /\ driver' = DriverAfterNextRound(driver, None)
    /\ UNCHANGED <<player, players, uuids, pc, bye, calls>>

\* `return None`
ReturnNone ==
    /\ ret' = None
    /\ driver' = DriverAfterNextRound(driver, None)
    /\ UNCHANGED <<player, players, pairings, uuids, pc, bye, calls>>

\* `let bye = self.grant_bye()`, up to the retry loop
EnterRound ==
    /\ \E seed \in Seeds :
        LET g == grant_bye(player, players, needs_bye, seed)
        IN  /\ player' = g.pl
            /\ players' = g.players
            /\ bye' = g.bye
    /\ pc' = "pairing"
    /\ UNCHANGED <<pairings, uuids, ret, calls, driver>>

\* next_round up to the retry loop: the round counter, the terminal signal,
\* grant_bye
NextRound ==
    /\ pc = "idle"
    /\ driver.pc \in {"free", "loop"}
    /\ current_round < rounds + MaxExtraRounds
    /\ current_round' = current_round + 1
    /\ entry' = Histories(player)
    /\ IF NoMoreRounds(current_round + 1, rounds) THEN ReturnNone ELSE EnterRound
    /\ UNCHANGED <<rounds, needs_bye, args, result>>

\* self.pairings.len() == self.players.len() / 2
PassAccepted(table, roster) == Cardinality(DOMAIN table) = Len(roster) \div 2

\* next_round that drops the bye recipient instead of pushing it back
Reinsert_Never(roster, b) == roster

\* `if let Some(bye) = bye { self.players.push(bye) }`
Reinsert(roster, b) == IF b # 0 THEN Append(roster, b) ELSE roster

\* the pass without `self.pairings.clear()`: the table keeps the old pairings
PairingAttempt_NoClear ==
    /\ pc = "pairing"
    /\ uuids < MaxUuids
    /\ \E seed \in Seeds :
        LET a == PairingPass(player, players, uuids, seed)
        IN  /\ player' = a.pl
            /\ pairings' = a.pairings @@ pairings
            /\ uuids' = a.uuids
            /\ IF PassAccepted(a.pairings, players)
               THEN \E seed2 \in Seeds :
                        /\ ret' = Some(Shuffle(a.ret, seed2))
                        /\ players' = Reinsert(players, bye)
                        /\ pc' = "idle"
                        /\ calls' = 0
                        /\ driver' = DriverAfterNextRound(driver, ret')
               ELSE UNCHANGED <<players, pc, ret, calls, driver>>
    /\ UNCHANGED <<rounds, current_round, needs_bye, bye, args, result, entry>>

\* next_round, one pass of `while repeat` and, when the pass is accepted,
\* the rest of the function
PairingAttempt ==
    /\ pc = "pairing"
    /\ uuids < MaxUuids
    /\ \E seed \in Seeds :
        LET a == PairingPass(player, players, uuids, seed)
        IN  /\ player' = a.pl
            /\ pairings' = a.pairings
            /\ uuids' = a.uuids
            /\ IF PassAccepted(a.pairings, players)
               THEN \E seed2 \in Seeds :
                        /\ ret' = Some(Shuffle(a.ret, seed2))
                        /\ players' = Reinsert(players, bye)
                        /\ pc' = "idle"
                        /\ calls' = 0
                        /\ driver' = DriverAfterNextRound(driver, ret')
               ELSE UNCHANGED <<players, pc, ret, calls, driver>>
    /\ UNCHANGED <<rounds, current_round, needs_bye, bye, args, result, entry>>

\* Arguments of Tournament::end_match under Spec
TournScores ==
    {<<2, 1, 0>>, <<0, 0, 1>>, <<4, 0, 0>>, <<2, 1, 2>>,
     <<3, 4, 5>>, <<0, 4, 5>>, <<0, 0, 5>>, <<2, 2, 3>>, <<0, 0, 0>>}

EndMatch ==
    /\ pc = "idle"
    /\ driver.pc = "free"
    /\ calls < MaxCalls
    /\ \E uuid \in 0 .. uuids, sc \in TournScores :
        LET r == Tournament_end_match(player, pairings, uuid, sc[1], sc[2], sc[3])
        IN  /\ player' = r.pl
            /\ args' = Args(uuid, sc[1], sc[2], sc[3])
            /\ result' = r.res
    /\ calls' = calls + 1
    /\ UNCHANGED <<players, pairings, rounds, current_round, needs_bye, uuids, pc,
                   bye, ret, entry, driver>>

\* Tournament::ranking with the shuffle of `seed`: the roster is left in the
\* order of the sorts and the driver goes on at `to`, or a sort panics and
\* leaves the roster in the order it had reached
RankingCall(seed, to) ==
    \E out \in RankingOutcomes(player, Shuffle(players, seed)) :
        IF out = Panicked
        THEN players' \in Orders(players) /\ driver' = [driver EXCEPT !.pc = "panicked"]
        ELSE players' = out /\ driver' = to

\* Tournament::ranking, called at one of the driver positions `at`, with the
\* shuffle drawn from `seeds`
RankingWith(seeds, at) ==
    /\ pc = "idle"
    /\ driver.pc \in at
    /\ \E seed \in seeds :
        RankingCall(seed, IF driver.pc = "ranking" THEN [pc |-> "done", i |-> 0]
                          ELSE IF driver.pc = "standings" THEN [pc |-> "ranked", i |-> 0]
                          ELSE driver)
    /\ UNCHANGED <<player, pairings, rounds, current_round, needs_bye, uuids, pc,
                   bye, ret, args, result, calls, entry>>

Ranking == RankingWith(Seeds, {"free", "ranking"})

Init ==
    /\ \E n \in 0 .. MaxPlayers : Tournament_new(n)
    /\ driver = [pc |-> "free", i |-> 0]

Next == NextRound \/ PairingAttempt \/ EndMatch \/ Ranking

Spec == Init /\ [][Next]_vars

-----------------------------------------------------------------------------
(* main.rs: next_round until None, one accepted result per pairing in the  *)
(* order of the returned list, then ranking                                *)

\* Scores typed at the prompt
MainScores == {<<1, 1>>, <<0, 0>>}

\* `if home_score == 1 && away_score == 1 { drawn = 1 }`
MainDrawn(home_score, away_score) == IF home_score = 1 /\ away_score = 1 THEN 1 ELSE 0

MainReadScores ==
    /\ pc = "idle"
    /\ driver.pc = "read"
    /\ \E sc \in MainScores :
        LET uuid == ret.list[driver.i][1]
            drawn == MainDrawn(sc[1], sc[2])
            r == Tournament_end_match(player, pairings, uuid, sc[1], sc[2], drawn)
        IN  /\ player' = r.pl
            /\ args' = Args(uuid, sc[1], sc[2], drawn)
            /\ result' = r.res
            /\ driver' = IF r.res.tag # "Ok" THEN driver
                         ELSE IF driver.i = Len(ret.list) THEN [pc |-> "loop", i |-> 0]
                         ELSE [pc |-> "read", i |-> driver.i + 1]
    /\ UNCHANGED <<players, pairings, rounds, current_round, needs_bye, uuids, pc,
                   bye, ret, calls, entry>>

InitMain ==
    /\ \E n \in 0 .. MaxMainPlayers : Tournament_new(n)
    /\ driver = [pc |-> "loop", i |-> 0]

NextMain == NextRound \/ PairingAttempt \/ MainReadScores \/ Ranking

SpecMain == InitMain /\ [][NextMain]_vars

-----------------------------------------------------------------------------
(* A caller that asks for the standings between rounds, as the comment on   *)
(* Tournament::ranking allows: the first round, one result per pairing in   *)
(* the order of the returned list, then ranking                             *)

\* Results recorded by this caller: 2-0 and 1-2
StandingsScores == {<<2, 0, 0>>, <<1, 2, 0>>}

StandingsReadScores ==
    /\ pc = "idle"
    /\ driver.pc = "read"
    /\ \E sc \in StandingsScores :
        LET uuid == ret.list[driver.i][1]
            r == Tournament_end_match(player, pairings, uuid, sc[1], sc[2], sc[3])
        IN  /\ player' = r.pl
            /\ args' = Args(uuid, sc[1], sc[2], sc[3])
            /\ result' = r.res
            /\ driver' = IF r.res.tag # "Ok" THEN driver
                         ELSE IF driver.i < Len(ret.list) THEN [pc |-> "read", i |-> driver.i + 1]
                         ELSE [pc |-> "standings", i |-> 0]
    /\ UNCHANGED <<players, pairings, rounds, current_round, needs_bye, uuids, pc,
                   bye, ret, calls, entry>>

InitStandings ==
    /\ \E n \in 0 .. MaxStandingsPlayers : Tournament_new(n)
    /\ driver = [pc |-> "loop", i |-> 0]

StandingsRanking == RankingWith(RankSeeds, {"standings"})

NextStandings == NextRound \/ PairingAttempt \/ StandingsReadScores \/ StandingsRanking

SpecStandings == InitStandings /\ [][NextStandings]_vars

-----------------------------------------------------------------------------
(* A single Pairing between two fresh players, as in the pairing tests     *)

ScoreArgs == (0 .. MaxScore) \cup {U8 - 1}

PairEndMatch ==
    /\ driver.pc = "pairing"
    /\ calls < MaxPairingCalls
    /\ \E h \in ScoreArgs, a \in ScoreArgs, d \in ScoreArgs :
        LET r == Pairing_end_match(player, pairings[1], h, a, d)
        IN  /\ player' = r.pl
            /\ args' = Args(1, h, a, d)
            /\ result' = r.res
    /\ calls' = calls + 1
    /\ UNCHANGED <<players, pairings, rounds, current_round, needs_bye, uuids, pc,
                   bye, ret, entry, driver>>

InitPairing ==
    /\ player = Pairing_new([x \in 1 .. 2 |-> Player_new], 1, 2)
    /\ players = << >>
    /\ pairings = (1 :> [home |-> 1, away |-> 2])
    /\ rounds = 0
    /\ current_round = 0
    /\ needs_bye = FALSE
    /\ uuids = 1
    /\ pc = "idle"
    /\ bye = 0
    /\ ret = NoCall
    /\ args = NoArgs
    /\ result = Unset
    /\ calls = 0
    /\ entry = [x \in 1 .. 2 |-> << >>]
    /\ driver = [pc |-> "pairing", i |-> 0]

NextPairing == PairEndMatch

SpecPairing == InitPairing /\ [][NextPairing]_vars

-----------------------------------------------------------------------------
(* The methods of Player and Pairing called directly on one Pairing of two *)
(* fresh players, as the unit tests do                                     *)

PlayerMethods ==
    {"lose_game", "draw_game", "win_game", "lose_match", "draw_match", "win_match", "bye"}

\* Player::<m>(&mut self)
PlayerCall(m, p) ==
    CASE m = "lose_game" -> lose_game(p)
      [] m = "draw_game" -> draw_game(p)
      [] m = "win_game" -> win_game(p)
      [] m = "lose_match" -> lose_match(p)
      [] m = "draw_match" -> draw_match(p)
      [] m = "win_match" -> win_match(p)
      [] m = "bye" -> Player_bye(p)

\* player.borrow_mut().<m>() on one of the two players
UnitPlayerMethod ==
    /\ driver.pc = "unit"
    /\ calls < MaxUnitCalls
    /\ \E m \in PlayerMethods, x \in DOMAIN player :
        /\ player' = [player EXCEPT ![x] = PlayerCall(m, @)]
        /\ args' = [method |-> m, on |-> x]
    /\ calls' = calls + 1
    /\ UNCHANGED <<players, pairings, rounds, current_round, needs_bye, uuids, pc,
                   bye, ret, result, entry, driver>>

\* pairing.win_game(side)
UnitPairingWinGame ==
    /\ driver.pc = "unit"
    /\ calls < MaxUnitCalls
    /\ \E side \in {"Home", "Away"} :
        /\ player' = Pairing_win_game(player, pairings[1], side)
        /\ args' = [method |-> "Pairing::win_game", on |-> side]
    /\ calls' = calls + 1
    /\ UNCHANGED <<players, pairings, rounds, current_round, needs_bye, uuids, pc,
                   bye, ret, result, entry, driver>>

\* pairing.draw_game()
UnitPairingDrawGame ==
    /\ driver.pc = "unit"
    /\ calls < MaxUnitCalls
    /\ player' = Pairing_draw_game(player, pairings[1])
    /\ args' = [method |-> "Pairing::draw_game", on |-> "Both"]
    /\ calls' = calls + 1
    /\ UNCHANGED <<players, pairings, rounds, current_round, needs_bye, uuids, pc,
                   bye, ret, result, entry, driver>>

InitUnits ==
    /\ player = Pairing_new([x \in 1 .. 2 |-> Player_new], 1, 2)
    /\ players = << >>
    /\ pairings = (1 :> [home |-> 1, away |-> 2])
    /\ rounds = 0
    /\ current_round = 0
    /\ needs_bye = FALSE
    /\ uuids = 1
    /\ pc = "idle"
    /\ bye = 0
    /\ ret = NoCall
    /\ args = NoArgs
    /\ result = Unset
    /\ calls = 0
    /\ entry = [x \in 1 .. 2 |-> << >>]
    /\ driver = [pc |-> "unit", i |-> 0]

NextUnits == UnitPlayerMethod \/ UnitPairingWinGame \/ UnitPairingDrawGame

SpecUnits == InitUnits /\ [][NextUnits]_vars

-----------------------------------------------------------------------------
(* The driver of the tournament tests: next_round until None, every match  *)
(* won 2-1 by the player with the higher number, then ranking              *)

\* `if home > away { (2, 1) } else { (1, 2) }`
StrengthScores(home, away) == IF home > away THEN <<2, 1>> ELSE <<1, 2>>

\* assert!(tourn.end_match(uuid, home_score, away_score, 0).is_ok())
StrengthRecord ==
    /\ pc = "idle"
    /\ driver.pc = "read"
    /\ LET uuid == ret.list[driver.i][1]
           sc == StrengthScores(ret.list[driver.i][2], ret.list[driver.i][3])
           r == Tournament_end_match(player, pairings, uuid, sc[1], sc[2], 0)
       IN  /\ player' = r.pl
           /\ args' = Args(uuid, sc[1], sc[2], 0)
           /\ result' = r.res
           /\ driver' = IF driver.i = Len(ret.list) THEN [pc |-> "loop", i |-> 0]
                        ELSE [pc |-> "read", i |-> driver.i + 1]
    /\ UNCHANGED <<players, pairings, rounds, current_round, needs_bye, uuids, pc,
                   bye, ret, calls, entry>>

InitStrength ==
    /\ \E n \in 0 .. MaxStrengthPlayers : Tournament_new(n)
    /\ driver = [pc |-> "loop", i |-> 0]

NextStrength == NextRound \/ PairingAttempt \/ StrengthRecord \/ Ranking

SpecStrength == InitStrength /\ [][NextStrength]_vars

-----------------------------------------------------------------------------
(* One run of the generator at a time: `rng` is a stream, and the k-th     *)
(* shuffle of a run takes the k-th seed of the run's tape.  The driver is  *)
(* that of main.rs with every match drawn 1-1; it carries the tape and the *)
(* number of seeds drawn.                                                  *)

RngTapes ==
    << <<256741665, 0, 223848337, 0, 216658042, 0, 130925594, 18861669, 229935722,
         325490968, 404161225, 369049301, 289133642, 110984205, 70229892>>,
       <<455608717, 0, 210138049, 0, 149049035, 0, 47023724, 96349967, 245792918,
         308623856, 25358155, 260985803, 168612626, 449707752, 459156934>> >>

\* The seeds of d's tape that have not been drawn
TapeLeft(d) == Len(RngTapes[d.tape]) - d.drawn

\* The k-th seed after those already drawn
TapeSeed(d, k) == RngTapes[d.tape][d.drawn + k]

\* next_round up to the retry loop; grant_bye shuffles only when needs_bye
TapeNextRound ==
    /\ pc = "idle"
    /\ driver.pc = "loop"
    /\ current_round' = current_round + 1
    /\ entry' = Histories(player)
    /\ IF NoMoreRounds(current_round + 1, rounds)
       THEN /\ ret' = None
            /\ driver' = [driver EXCEPT !.pc = "ranking"]
            /\ UNCHANGED <<player, players, pairings, uuids, pc, bye, calls>>
       ELSE /\ needs_bye => TapeLeft(driver) >= 1
            /\ LET g == grant_bye(player, players, needs_bye,
                                  IF needs_bye THEN TapeSeed(driver, 1) ELSE 0)
               IN  /\ player' = g.pl
                   /\ players' = g.players
                   /\ bye' = g.bye
            /\ driver' = [driver EXCEPT !.drawn = IF needs_bye THEN @ + 1 ELSE @]
            /\ pc' = "pairing"
            /\ UNCHANGED <<pairings, uuids, ret, calls>>
    /\ UNCHANGED <<rounds, needs_bye, args, result>>

\* one pass of `while repeat` and, when the pass is accepted, the rest of
\* next_round
TapePairingAttempt ==
    /\ pc = "pairing"
    /\ TapeLeft(driver) >= 1
    /\ LET a == PairingPass(player, players, uuids, TapeSeed(driver, 1))
       IN  /\ player' = a.pl
           /\ pairings' = a.pairings
           /\ uuids' = a.uuids
           /\ IF PassAccepted(a.pairings, players)
              THEN /\ TapeLeft(driver) >= 2
                   /\ ret' = Some(Shuffle(a.ret, TapeSeed(driver, 2)))
                   /\ players' = Reinsert(players, bye)
                   /\ pc' = "idle"
                   /\ calls' = 0
                   /\ driver' = [driver EXCEPT !.pc = IF Len(a.ret) = 0 THEN "loop" ELSE "read",
                                               !.i = IF Len(a.ret) = 0 THEN 0 ELSE 1,
                                               !.drawn = @ + 2]
              ELSE /\ driver' = [driver EXCEPT !.drawn = @ + 1]
                   /\ UNCHANGED <<players, pc, ret, calls>>
    /\ UNCHANGED <<rounds, current_round, needs_bye, bye, args, result, entry>>

\* main.rs: the scores 1 and 1 typed for the next pairing of the list
TapeReadScores ==
    /\ pc = "idle"
    /\ driver.pc = "read"
    /\ LET uuid == ret.list[driver.i][1]
           r == Tournament_end_match(player, pairings, uuid, 1, 1, MainDrawn(1, 1))
       IN  /\ player' = r.pl
           /\ args' = Args(uuid, 1, 1, MainDrawn(1, 1))
           /\ result' = r.res
           /\ driver' = IF driver.i = Len(ret.list)
                        THEN [driver EXCEPT !.pc = "loop", !.i = 0]
                        ELSE [driver EXCEPT !.i = @ + 1]
    /\ UNCHANGED <<players, pairings, rounds, current_round, needs_bye, uuids, pc,
                   bye, ret, calls, entry>>

InitTape ==
    /\ \E n \in 0 .. MaxTapePlayers : Tournament_new(n)
    /\ \E t \in DOMAIN RngTapes : driver = [pc |-> "loop", i |-> 0, tape |-> t, drawn |-> 0]

\* main.rs: tourn.ranking() after the loop, its shuffle taking the next seed
TapeRanking ==
    /\ pc = "idle"
    /\ driver.pc = "ranking"
    /\ TapeLeft(driver) >= 1
    /\ RankingCall(TapeSeed(driver, 1),
                   [driver EXCEPT !.pc = "done", !.i = 0, !.drawn = @ + 1])
    /\ UNCHANGED <<player, pairings, rounds, current_round, needs_bye, uuids, pc,
                   bye, ret, args, result, calls, entry>>

NextTape == TapeNextRound \/ TapePairingAttempt \/ TapeReadScores \/ TapeRanking

SpecTape == InitTape /\ [][NextTape]_vars

-----------------------------------------------------------------------------
(* Properties *)

NumPlayers == Cardinality(DOMAIN player)

\* next_round has returned a pairing list and nothing has replaced it
Returned == pc = "idle" /\ ret.tag = "Some"

\* The entries of a returned list that name x as home or away
PairingsOf(list, x) == {i \in 1 .. Len(list) : list[i][2] = x \/ list[i][3] = x}

ByeCount == Cardinality({x \in DOMAIN player : player[x].has_bye})

\* C1: in every pairing list returned by next_round, every competitor other
\* than the round's bye recipient is in exactly one pairing (so no competitor
\* is in two), and the bye recipient is in none.
C1_PerfectMatching ==
    Returned =>
        \A x \in DOMAIN player :
            Cardinality(PairingsOf(ret.list, x)) = IF x = bye THEN 0 ELSE 1

\* C2: no pairing of a returned list matches two competitors one of whom was
\* in the other's opponent history when next_round was called.
C2_NoRematch ==
    Returned =>
        \A i \in 1 .. Len(ret.list) :
            /\ ~Contains(entry[ret.list[i][2]], ret.list[i][3])
            /\ ~Contains(entry[ret.list[i][3]], ret.list[i][2])

\* C3: a step of next_round changes a competitor's record only by granting
\* the bye, and only to a competitor whose has_bye was false; has_bye is true
\* afterwards, so no competitor is granted a bye twice.
C3_ByeOnce ==
    [][\A x \in DOMAIN player :
        (current_round' # current_round /\ player'[x] # player[x])
            => (~player[x].has_bye /\ player'[x].has_bye)]_vars

\* C3 witness: two rounds have granted their byes to two competitors.
C3_Witness == pc = "idle" /\ ByeCount >= 2

\* C4, the bye step: with N odd, entering a round grants the bye to exactly
\* one competitor, whose record changes by +3 match points, +6 game points,
\* +1 match, +2 games, has_bye set, opponent history unchanged.
C4_ByeStep ==
    (NumPlayers % 2 = 1 /\ pc = "idle" /\ pc' = "pairing") =>
        /\ bye' \in DOMAIN player
        /\ ~player[bye'].has_bye
        /\ player' = [player EXCEPT ![bye'] =
                        [match_points |-> @.match_points + 3,
                         game_points |-> @.game_points + 6,
                         matches_played |-> @.matches_played + 1,
                         games_played |-> @.games_played + 2,
                         opponents |-> @.opponents,
                         has_bye |-> TRUE]]

\* C4, the return step: the bye recipient is the one competitor excluded from
\* the returned pairings, and pairing leaves its record alone.
C4_ReturnStep ==
    (NumPlayers % 2 = 1 /\ pc = "pairing" /\ pc' = "idle") =>
        /\ {x \in DOMAIN player : PairingsOf(ret'.list, x) = {}} = {bye}
        /\ player'[bye] = player[bye]

\* C4: for odd N every next_round call that returns a list excludes exactly
\* one competitor from the pairings, and that competitor received the bye
\* (a 2-0 match win, has_bye set, no opponent-history entry).
C4_OddBye == [][C4_ByeStep /\ C4_ReturnStep]_vars

\* C5: once all rounds have been paired, exactly `rounds` competitors have
\* has_bye when N is odd and none when N is even; needs_bye is N odd, always.
C5_ByeCount ==
    /\ needs_bye = (NumPlayers % 2 = 1)
    /\ (pc = "idle" /\ current_round >= rounds) =>
            ByeCount = IF NumPlayers % 2 = 1 THEN rounds ELSE 0

\* C5 witness: a nine-player tournament has ended with four byes granted.
C5_Witness == driver.pc = "done" /\ NumPlayers % 2 = 1 /\ rounds >= 3 /\ ByeCount = rounds

\* C6: for N >= 1, rounds is the smallest r with 2^r >= N, in every state.
C6_Rounds ==
    NumPlayers >= 1 =>
        /\ Pow2(rounds) >= NumPlayers
        /\ rounds = 0 \/ Pow2(rounds - 1) < NumPlayers

\* C6 witness: five players, three rounds, after the tournament has ended.
C6_Witness == NumPlayers = 5 /\ rounds = 3 /\ current_round > rounds

\* C7: the k-th next_round call returns a pairing list when k <= rounds and
\* None when k > rounds; with N = 1 the sole competitor never gets a bye.
C7_RoundsThenNone ==
    /\ (pc = "idle" /\ current_round >= 1) =>
            ret.tag = IF current_round <= rounds THEN "Some" ELSE "None"
    /\ NumPlayers = 1 => ~player[1].has_bye

\* C7 witness: the second call after the last round has returned None.
C7_Witness == rounds = 2 /\ current_round = rounds + 2 /\ ret.tag = "None"

\* C8: a next_round call that returns None changes only current_round (and
\* the value returned): roster, records and pairing table are unchanged.
C8_NoneFrame ==
    [][(current_round' # current_round /\ NoMoreRounds(current_round', rounds))
        => /\ ret'.tag = "None"
           /\ player' = player
           /\ players' = players
           /\ pairings' = pairings
           /\ rounds' = rounds
           /\ needs_bye' = needs_bye]_vars

\* C8 witness: None was returned and the last round's table is still there.
C8_Witness == ret.tag = "None" /\ DOMAIN pairings # {} /\ current_round > rounds

\* C9: an end_match call that returns an error leaves both competitors'
\* records (counters and opponent histories) as they were.
C9_RejectFrame ==
    [][(calls' = calls + 1 /\ result'.tag # "Ok") => player' = player]_vars

\* C9 witness: end_match(2, 1, 2) was rejected after an accepted result.
C9_Witness ==
    /\ result.tag = "OutOfRange"
    /\ args.home_score = 2 /\ args.away_score = 1 /\ args.drawn = 2
    /\ player[1].games_played > 0

\* C10: Pairing::end_match(h, a, d) returns Ok exactly when h and a are in
\* 0..2, d is in 0..3 and h + a + d is in 1..3, and an error otherwise.
C10_AcceptIff ==
    calls >= 1 =>
        /\ result.tag \in {"Ok", "OutOfRange"}
        /\ result.tag = "Ok" <=>
            /\ args.home_score \in 0 .. 2
            /\ args.away_score \in 0 .. 2
            /\ args.drawn \in 0 .. 3
            /\ args.home_score + args.away_score + args.drawn \in 1 .. 3

\* C10 witness: three drawn games were accepted.
C10_Witness == result.tag = "Ok" /\ args.home_score = 0 /\ args.away_score = 0 /\ args.drawn = 3

\* The record p after a match of `games` games that brought it game_points
\* game points and match_points match points
AfterMatch(p, game_points, games, match_points) ==
    [p EXCEPT !.game_points = @ + game_points,
              !.games_played = @ + games,
              !.matches_played = @ + 1,
              !.match_points = @ + match_points]

\* Match points of a side that scored own against other
MatchPointsFor(own, other) == IF own > other THEN 3 ELSE IF own = other THEN 1 ELSE 0

\* C11: an accepted end_match(h, a, d) adds 3h+d game points to home and 3a+d
\* to away, h+a+d games and one match to both, and 3 match points to the side
\* with the strictly higher score (0 to the other) or 1 to each when h = a;
\* nothing else of the two records changes.
C11_AcceptedDeltas ==
    [][(calls' = calls + 1 /\ result'.tag = "Ok") =>
        LET h == args'.home_score
            a == args'.away_score
            d == args'.drawn
            pair == pairings[args'.uuid]
        IN  /\ player'[pair.home] =
                    AfterMatch(player[pair.home], 3 * h + d, h + a + d, MatchPointsFor(h, a))
            /\ player'[pair.away] =
                    AfterMatch(player[pair.away], 3 * a + d, h + a + d, MatchPointsFor(a, h))]_vars

\* C11 witness: end_match(2, 0, 0) on two fresh competitors gave the winner
\* 3 match points, 6 game points, 1 match, 2 games and the loser 0, 0, 1, 2.
C11_Witness ==
    /\ result.tag = "Ok"
    /\ args.home_score = 2 /\ args.away_score = 0 /\ args.drawn = 0
    /\ player[1].match_points = 3 /\ player[1].game_points = 6
    /\ player[1].matches_played = 1 /\ player[1].games_played = 2
    /\ player[2].match_points = 0 /\ player[2].game_points = 0
    /\ player[2].matches_played = 1 /\ player[2].games_played = 2

\* The first of home_score, away_score, drawn_games and their sum that is
\* outside its range
FirstOffender(h, a, d) ==
    IF h \notin 0 .. 2 THEN h
    ELSE IF a \notin 0 .. 2 THEN a
    ELSE IF d \notin 0 .. 3 THEN d
    ELSE h + a + d

\* C12: when Tournament::end_match rejects the scores of an existing
\* pairing, it returns OutOfRange with the first value that fails its check,
\* in the order home_score, away_score, drawn_games, sum of the three.
C12_FirstOffender ==
    [][(calls' = calls + 1 /\ args'.uuid \in DOMAIN pairings /\ result'.tag # "Ok") =>
        result' = OutOfRange(FirstOffender(args'.home_score, args'.away_score,
                                           args'.drawn))]_vars

\* C12 witness: end_match(uuid, 3, 4, 5) on a pairing of the table reported 3.
C12_Witness ==
    /\ args.uuid \in DOMAIN pairings
    /\ args.home_score = 3 /\ args.away_score = 4 /\ args.drawn = 5
    /\ result = OutOfRange(3)

\* C13: Tournament::end_match with an identifier that is no key of the
\* pairing table returns NotFound with that identifier, whatever the scores,
\* and changes neither the tournament nor any competitor.
C13_NotFoundFrame ==
    [][(calls' = calls + 1 /\ args'.uuid \notin DOMAIN pairings) =>
        /\ result' = NotFound(args'.uuid)
        /\ UNCHANGED <<player, players, pairings, rounds, current_round, needs_bye>>]_vars

\* C13 witness: an identifier that was never issued, with scores that are out
\* of range, was answered NotFound while the table held a pairing.
C13_Witness ==
    /\ result = NotFound(0)
    /\ args = Args(0, 3, 4, 5)
    /\ DOMAIN pairings # {}

\* C14: an end_match call for the pairing whose result the preceding call of
\* the same round has recorded successfully returns NotFound and changes no
\* competitor's counters.
C14_RecordOnce ==
    [][(calls >= 1 /\ calls' = calls + 1 /\ result.tag = "Ok" /\ args'.uuid = args.uuid) =>
        /\ result'.tag = "NotFound"
        /\ player' = player]_vars

\* The identifiers of the returned pairing list
RetIds == {ret.list[i][1] : i \in 1 .. Len(ret.list)}

\* C15: the identifiers of a returned list are exactly the keys end_match
\* finds; they stay keys through every step up to the next_round call that
\* returns the next list, and that call leaves no identifier issued before it
\* in the table, so an identifier of the round before yields NotFound.
C15_IdLifetime ==
    [][/\ Returned' => RetIds' = DOMAIN pairings'
       /\ pc # "pairing" => pairings' = pairings
       /\ (pc = "pairing" /\ pc' = "idle") => DOMAIN pairings' \cap (0 .. uuids) = {}
       /\ calls' = calls + 1 =>
            (result'.tag = "NotFound" <=> args'.uuid \notin DOMAIN pairings)]_vars

\* C15 witness: in round 2 the identifier of round 1 was answered NotFound.
C15_Witness ==
    /\ Returned
    /\ current_round = 2
    /\ calls >= 1
    /\ args.uuid = 1
    /\ 1 \notin RetIds
    /\ result = NotFound(1)

\* ranking() has returned and `players` is the list it returned
Ranked == pc = "idle" /\ driver.pc \in {"ranked", "done"}

\* The four sort keys of competitor x, most significant first
RankKey(x) ==
    <<U32Key(player[x].match_points),
      opponents_match_win_percentage(player, x),
      game_win_percentage(player[x]),
      opponents_game_win_percentage(player, x)>>

\* kx is lexicographically below ky from component i on; two components that
\* partial_cmp cannot order count as equal
RECURSIVE KeyLess(_, _, _)
KeyLess(kx, ky, i) ==
    IF i > Len(kx) THEN FALSE
    ELSE IF KeyBelow(kx[i], ky[i]) THEN TRUE
    ELSE IF KeyBelow(ky[i], kx[i]) THEN FALSE
    ELSE KeyLess(kx, ky, i + 1)

\* C16: in the list returned by ranking() no competitor stands before one
\* with a greater key (match_points, OMWP, GWP, OGWP), compared
\* lexicographically.
C16_RankingOrder ==
    Ranked =>
        \A i, j \in 1 .. Len(players) :
            i < j => ~KeyLess(RankKey(players[i]), RankKey(players[j]), 1)

\* C17: whenever ranking() has ranked the competitors, the OMWP and OGWP it
\* sorted by are defined values for every competitor, those with an empty
\* opponent history included.
C17_DefinedKeys ==
    Ranked =>
        \A x \in DOMAIN player :
            /\ ~opponents_match_win_percentage(player, x).nan
            /\ ~opponents_game_win_percentage(player, x).nan

\* next_round has returned a pairing list at least once
RoundPlayed == rounds >= 1 /\ (current_round >= 2 \/ (current_round = 1 /\ pc = "idle"))

\* C18: once next_round has returned a pairing list, no competitor has an
\* empty opponent history.
C18_HistoryNonEmpty ==
    RoundPlayed => \A x \in DOMAIN player : player[x].opponents # << >>

MaxOf(a, b) == IF a > b THEN a ELSE b

\* Exact arithmetic for the statements: the rational num / den, den > 0
Rat(n, d) == [num |-> n, den |-> d]

RECURSIVE Gcd(_, _)
Gcd(a, b) == IF b = 0 THEN a ELSE Gcd(b, a % b)

\* n / d in lowest terms
Reduced(n, d) == LET g == Gcd(n, d) IN Rat(n \div g, d \div g)

\* p / q with q <= p < 2 * q, and the power of two taken out
RECURSIVE Scaled(_, _, _)
Scaled(p, q, e) ==
    IF p < q THEN Scaled(2 * p, q, e - 1)
    ELSE IF p >= 2 * q THEN Scaled(p, 2 * q, e + 1)
    ELSE [p |-> p, q |-> q, e |-> e]

\* the binary expansion of r / q, four bits at a time, until <<h, l>> holds
\* 53 bits
RECURSIVE Expansion(_, _, _, _, _)
Expansion(q, r, h, l, k) ==
    IF k = 53 THEN [hi |-> h, lo |-> l, rem |-> r]
    ELSE Expansion(q, (16 * r) % q, h * 16 + ((l * 16) \div LoBase),
                   (l * 16 + ((16 * r) \div q)) % LoBase, k + 4)

\* The f64 nearest to the rational p / q (ties to even), p >= 0 and q > 0
NearestF64(p, q) ==
    IF p = 0 THEN F64Zero
    ELSE LET s == Scaled(p, q, 0)
             x == Expansion(s.q, s.p - s.q, 0, 1, 1)
         IN  F64Round(x.hi, x.lo, s.e - 52,
                      IF 2 * x.rem >= s.q THEN 1 ELSE 0, 2 * x.rem > s.q)

\* 1/3 when played = 0 and max(1/3, points / (3 * played)) otherwise
ExactWinPercentage(points, played) ==
    IF played = 0 THEN Rat(1, 3) ELSE Reduced(MaxOf(played, points), 3 * played)

\* v is the f64 nearest to that value
IsWinPercentage(v, points, played) ==
    LET w == ExactWinPercentage(points, played) IN v = NearestF64(w.num, w.den)

\* 1/3 <= v <= 1 among the f64
InFloorToOne(v) ==
    /\ ~v.nan
    /\ ~F64Less(v, NearestF64(1, 3))
    /\ ~F64Less(F64FromInt(1), v)

\* C19: for every competitor in every state, match_win_percentage is 1/3
\* with no match played and max(1/3, match_points / (3 * matches_played))
\* otherwise, game_win_percentage is the same over game points and games,
\* and both lie in [1/3, 1]; a real number stands for the f64 nearest to it.
C19_WinPercentages ==
    \A x \in DOMAIN player :
        LET p == player[x]
            mwp == match_win_percentage(p)
            gwp == game_win_percentage(p)
        IN  /\ IsWinPercentage(mwp, p.match_points, p.matches_played)
            /\ IsWinPercentage(gwp, p.game_points, p.games_played)
            /\ InFloorToOne(mwp)
            /\ InFloorToOne(gwp)

\* C19 witness: one competitor has lost every match (the floor applies) and
\* another has won every match (the value is 1).
C19_Witness ==
    /\ \E x \in DOMAIN player :
        /\ player[x].matches_played > 0 /\ player[x].match_points = 0
        /\ match_win_percentage(player[x]) = NearestF64(1, 3)
    /\ \E y \in DOMAIN player :
        /\ player[y].matches_played > 0
        /\ player[y].match_points = 3 * player[y].matches_played
        /\ match_win_percentage(player[y]) = F64FromInt(1)

\* Exact arithmetic for the statements: the number
\* (top * 2^54 + hi * 2^27 + lo) * 2^-54 in three limbs, hi and lo below 2^27
Exact(t, h, l) == [top |-> t, hi |-> h, lo |-> l]

\* the limbs brought back below 2^27
Carried(t, h, l) ==
    Exact(t + ((h + (l \div LoBase)) \div LoBase), (h + (l \div LoBase)) % LoBase, l % LoBase)

\* the exact value of the f64 v, v = 0 or 2^-2 <= v < 2^25
ExactOf(v) ==
    IF v.hi = 0 THEN Exact(0, 0, 0)
    ELSE LET k == v.exp + 54
         IN  Exact(v.hi \div TwoTo(27 - k),
                   (v.lo \div TwoTo(27 - k)) + (v.hi % TwoTo(27 - k)) * TwoTo(k),
                   (v.lo % TwoTo(27 - k)) * TwoTo(k))

ExactAdd(a, b) == Carried(a.top + b.top, a.hi + b.hi, a.lo + b.lo)

\* n * a
RECURSIVE ExactTimes(_, _)
ExactTimes(n, a) == IF n = 0 THEN Exact(0, 0, 0) ELSE ExactAdd(ExactTimes(n - 1, a), a)

ExactLess(a, b) ==
    \/ a.top < b.top
    \/ a.top = b.top /\ a.hi < b.hi
    \/ a.top = b.top /\ a.hi = b.hi /\ a.lo < b.lo

\* The exact sum of the f64 vals[1] .. vals[k]
RECURSIVE ExactSum(_, _)
ExactSum(vals, k) ==
    IF k = 0 THEN Exact(0, 0, 0) ELSE ExactAdd(ExactSum(vals, k - 1), ExactOf(vals[k]))

\* the next f64 above v and the next one below, v > 0
F64Up(v) == F64Round(v.hi, v.lo, v.exp, 1, TRUE)

F64Down(v) ==
    IF v.lo > 0 THEN F64(v.hi, v.lo - 1, v.exp)
    ELSE IF v.hi > HiTop THEN F64(v.hi - 1, LoBase - 1, v.exp)
    ELSE F64(HiBase - 1, LoBase - 1, v.exp - 1)

\* v > 0 is the f64 nearest (ties to even) to x / n for the exact x and the
\* integer n > 0: twice x lies between n times v plus its lower neighbour
\* and n times v plus its upper one
IsNearestTo(v, x, n) ==
    LET twice == ExactAdd(x, x)
        below == ExactTimes(n, ExactAdd(ExactOf(F64Down(v)), ExactOf(v)))
        above == ExactTimes(n, ExactAdd(ExactOf(v), ExactOf(F64Up(v))))
        even == v.lo % 2 = 0
    IN  /\ ~v.nan
        /\ v.hi # 0
        /\ ExactLess(below, twice) \/ (below = twice /\ even)
        /\ ExactLess(twice, above) \/ (above = twice /\ even)

\* v is the f64 nearest to the arithmetic mean of the non-empty sequence
\* vals of f64
IsMeanOf(v, vals) == IsNearestTo(v, ExactSum(vals, Len(vals)), Len(vals))

\* The sums of vals[1] .. vals[k] added left to right from 0.0, the first
\* entry being 0.0 itself
RECURSIVE AddedInOrder(_, _)
AddedInOrder(vals, k) ==
    IF k = 0 THEN <<F64Zero>>
    ELSE LET sums == AddedInOrder(vals, k - 1)
         IN  Append(sums, F64Add(sums[k], vals[k]))

\* v is the mean of the non-empty sequence vals as f64 arithmetic computes
\* it: every sum of AddedInOrder is the f64 nearest to the exact sum of its
\* two operands, and v is the f64 nearest to the last of them divided by
\* Len(vals)
IsMeanInF64(v, vals) ==
    LET sums == AddedInOrder(vals, Len(vals))
    IN  /\ \A k \in 1 .. Len(vals) :
            IsNearestTo(sums[k + 1], ExactAdd(ExactOf(sums[k]), ExactOf(vals[k])), 1)
        /\ IsNearestTo(v, ExactOf(sums[Len(vals) + 1]), Len(vals))

\* The values match_win_percentage (game_win_percentage) returns for the
\* first k entries of the history opps, one per entry
RECURSIVE MatchWinsOf(_, _)
MatchWinsOf(opps, k) ==
    IF k = 0 THEN << >>
    ELSE Append(MatchWinsOf(opps, k - 1), match_win_percentage(player[opps[k]]))

RECURSIVE GameWinsOf(_, _)
GameWinsOf(opps, k) ==
    IF k = 0 THEN << >>
    ELSE Append(GameWinsOf(opps, k - 1), game_win_percentage(player[opps[k]]))

MatchWinsOfHistory(x) == MatchWinsOf(player[x].opponents, Len(player[x].opponents))

GameWinsOfHistory(x) == GameWinsOf(player[x].opponents, Len(player[x].opponents))

\* C20 as stated: for every competitor with a non-empty opponent history,
\* OMWP is the arithmetic mean of the values of match_win_percentage over the
\* entries of the history, one term per entry, and OGWP that of the values
\* of game_win_percentage; the mean stands for the f64 nearest to it.
C20_OpponentMeans ==
    \A x \in DOMAIN player :
        player[x].opponents # << >> =>
            /\ IsMeanOf(opponents_match_win_percentage(player, x), MatchWinsOfHistory(x))
            /\ IsMeanOf(opponents_game_win_percentage(player, x), GameWinsOfHistory(x))

\* C20 amended: for every competitor with a non-empty opponent history, OMWP
\* and OGWP are the means of the values over the entries, one term per entry,
\* as f64 arithmetic computes them: the terms added left to right in the
\* order of the history, the sum divided by the number of entries, every
\* addition and the division rounded to the nearest f64.  For one or two
\* entries that is the f64 nearest to the mean; a bye adds no term.
C20_MeansInF64 ==
    \A x \in DOMAIN player :
        LET n == Len(player[x].opponents)
            omwp == opponents_match_win_percentage(player, x)
            ogwp == opponents_game_win_percentage(player, x)
            mwps == MatchWinsOfHistory(x)
            gwps == GameWinsOfHistory(x)
        IN  n > 0 =>
                /\ IsMeanInF64(omwp, mwps)
                /\ IsMeanInF64(ogwp, gwps)
                /\ n <= 2 => IsMeanOf(omwp, mwps) /\ IsMeanOf(ogwp, gwps)

\* C20 witness: a competitor with a bye and a shorter history than matches
\* played whose OMWP is above the floor, and a competitor with three entries
\* whose OMWP is not the f64 nearest to the mean of its three terms.
C20_Witness ==
    /\ \E x \in DOMAIN player :
        /\ player[x].has_bye
        /\ Len(player[x].opponents) > 0
        /\ Len(player[x].opponents) < player[x].matches_played
        /\ F64Less(NearestF64(1, 3), opponents_match_win_percentage(player, x))
    /\ \E y \in DOMAIN player :
        /\ Len(player[y].opponents) = 3
        /\ ~IsMeanOf(opponents_match_win_percentage(player, y), MatchWinsOfHistory(y))

\* The change of the four counters from record p to record q
CounterDelta(p, q) ==
    [match_points |-> q.match_points - p.match_points,
     game_points |-> q.game_points - p.game_points,
     matches_played |-> q.matches_played - p.matches_played,
     games_played |-> q.games_played - p.games_played]

Deltas(mp, gp, m, g) ==
    [match_points |-> mp, game_points |-> gp, matches_played |-> m, games_played |-> g]

\* q differs from p by the given counter changes and by nothing else
OnlyCounters(p, q, d) ==
    /\ CounterDelta(p, q) = d
    /\ q.opponents = p.opponents
    /\ q.has_bye = p.has_bye

\* The counter changes the claim gives for the six game and match methods
MethodDeltas ==
    [lose_game |-> Deltas(0, 0, 0, 1), draw_game |-> Deltas(0, 1, 0, 1),
     win_game |-> Deltas(0, 3, 0, 1), lose_match |-> Deltas(0, 0, 1, 0),
     draw_match |-> Deltas(1, 0, 1, 0), win_match |-> Deltas(3, 0, 1, 0)]

\* C21: lose_game, draw_game, win_game add one game and 0, 1, 3 game points;
\* lose_match, draw_match, win_match add one match and 0, 1, 3 match points;
\* each changes nothing else of the record and nothing of the other record.
C21_MethodDeltas ==
    [][(calls' = calls + 1 /\ args'.method \in DOMAIN MethodDeltas) =>
        LET x == args'.on
        IN  /\ OnlyCounters(player[x], player'[x], MethodDeltas[args'.method])
            /\ \A y \in DOMAIN player \ {x} : player'[y] = player[y]]_vars

\* C21 witness: draw_game, then win_match, then lose_game on the same fresh
\* player left it with 2 games, 1 game point, 1 match and 3 match points.
C21_Witness ==
    /\ calls = 3
    /\ args.method = "lose_game"
    /\ player[args.on].games_played = 2 /\ player[args.on].game_points = 1
    /\ player[args.on].matches_played = 1 /\ player[args.on].match_points = 3

\* C25: Pairing::win_game(side) adds one game and 3 game points to the
\* winner and one game to the loser, Pairing::draw_game adds one game and one
\* game point to both; matches_played, match_points and everything else of
\* both records are unchanged.
C25_GamesOnly ==
    [][(calls' = calls + 1 /\ args'.method \in {"Pairing::win_game", "Pairing::draw_game"}) =>
        LET pair == pairings[1]
            home_points == IF args'.on = "Both" THEN 1 ELSE IF args'.on = "Home" THEN 3 ELSE 0
            away_points == IF args'.on = "Both" THEN 1 ELSE IF args'.on = "Away" THEN 3 ELSE 0
        IN  /\ OnlyCounters(player[pair.home], player'[pair.home], Deltas(0, home_points, 0, 1))
            /\ OnlyCounters(player[pair.away], player'[pair.away], Deltas(0, away_points, 0, 1))]_vars

\* C25 witness: win_game(Home), win_game(Away) and draw_game in some order
\* left both sides with 3 games, 4 game points and no match booked.
C25_Witness ==
    /\ calls = 3
    /\ args.method \in {"Pairing::win_game", "Pairing::draw_game"}
    /\ \A x \in {1, 2} :
        /\ player[x].games_played = 3 /\ player[x].game_points = 4
        /\ player[x].matches_played = 0 /\ player[x].match_points = 0


\* The histories h after the pairings u .. last of table were constructed in
\* that order: each appends away to home's history and home to away's
RECURSIVE HistoriesAfter(_, _, _, _)
HistoriesAfter(h, table, u, last) ==
    IF u > last THEN h
    ELSE LET h1 == [h EXCEPT ![table[u].home] = Append(@, table[u].away)]
             h2 == [h1 EXCEPT ![table[u].away] = Append(@, table[u].home)]
         IN  HistoriesAfter(h2, table, u + 1, last)

\* C22: opponent histories change only by the construction of a Pairing,
\* which appends away to home's history and home to away's; the bye, end_match
\* (accepted or rejected, with the win_game and draw_game calls it makes) and
\* ranking leave every history as it was.
C22_HistoriesOnlyInNew ==
    [][IF pc = "pairing"
       THEN Histories(player') = HistoriesAfter(Histories(player), pairings', uuids + 1, uuids')
       ELSE Histories(player') = Histories(player)]_vars

\* C22 witness: four competitors after the second round's last accepted
\* result: two matches booked for everyone, two history entries each.
C22_Witness ==
    /\ NumPlayers = 4
    /\ result.tag = "Ok"
    /\ \A x \in DOMAIN player :
        /\ player[x].matches_played = 2
        /\ Len(player[x].opponents) = 2


\* C26: in every state reached through next_round and end_match calls,
\* accepted or rejected, every competitor has played at least as many games
\* as matches.
C26_GamesAtLeastMatches ==
    \A x \in DOMAIN player : player[x].games_played >= player[x].matches_played

\* C26 witness: a competitor whose only match was recorded as one drawn game
\* (end_match(0, 0, 1)) has one game and one match.
C26_Witness ==
    /\ result.tag = "Ok"
    /\ args.home_score = 0 /\ args.away_score = 0 /\ args.drawn = 1
    /\ \E x \in DOMAIN player :
        player[x].matches_played = 1 /\ player[x].games_played = 1


\* C23: when one valid result has been recorded for every returned pairing of
\* every round, then after the final round every competitor has
\* matches_played equal to rounds, a bye counting as one match.
C23_MatchesEqualRounds ==
    (pc = "idle" /\ driver.pc \in {"ranking", "ranked", "done"}) =>
        \A x \in DOMAIN player : player[x].matches_played = rounds


\* C24: when every match is won 2-1 by the stronger side (the higher player
\* number) and recorded once, ranking() after the last round places the
\* strongest competitor first with match_points = 3 * rounds, whatever the
\* shuffles chose.
C24_StrongestFirst ==
    (pc = "idle" /\ driver.pc = "done" /\ NumPlayers > 0) =>
        /\ players[1] = NumPlayers
        /\ player[players[1]].match_points = 3 * rounds


\* C24 witness: nine competitors, four rounds played, ranking done: the
\* strongest is first with 12 match points, and it was paired in every round.
C24_Witness ==
    /\ pc = "idle" /\ driver.pc = "done"
    /\ NumPlayers = 9
    /\ players[1] = 9
    /\ player[9].match_points = 12
    /\ Len(player[9].opponents) = 4


\* The competitors still in the queue when the home of pairing u has been
\* popped in a pass that built the pairings first .. of table from the roster
\* with histories hist: everyone but the homes up to u and the aways before u
\* that the scan removed (those outside their home's history)
Remaining(table, first, u, hist, roster) ==
    Range(roster) \
        ({table[v].home : v \in first .. u} \cup
         {table[v].away : v \in {w \in first .. (u - 1) :
                                    ~Contains(hist[table[w].home], table[w].away)}})

\* The remaining competitors outside the history of the home of pairing u
Candidates(table, first, u, hist, roster) ==
    {c \in Remaining(table, first, u, hist, roster) : ~Contains(hist[table[u].home], c)}

\* C27 as claimed: in a pairing pass, the away of a home that has a remaining
\* competitor outside its history is such a competitor with the lowest match
\* points.
C27_AwayLowest ==
    [][pc = "pairing" =>
        \A u \in DOMAIN pairings' :
            LET cand == Candidates(pairings', uuids + 1, u, Histories(player), players)
            IN  cand # {} =>
                    /\ pairings'[u].away \in cand
                    /\ \A c \in cand :
                        player[pairings'[u].away].match_points <= player[c].match_points]_vars

\* C27, amended: in a pairing pass, the away of a home that has a remaining
\* competitor outside its history is such a competitor with the highest match
\* points (the scan runs from the high-points end of the queue downward).
C27_AwayHighest ==
    [][pc = "pairing" =>
        \A u \in DOMAIN pairings' :
            LET cand == Candidates(pairings', uuids + 1, u, Histories(player), players)
            IN  cand # {} =>
                    /\ pairings'[u].away \in cand
                    /\ \A c \in cand :
                        player[pairings'[u].away].match_points >= player[c].match_points]_vars

\* C27 witness: next_round has just returned (no result recorded yet) a
\* pairing whose away has more match points than a competitor that was still
\* in the queue and outside home's history.
C27_Witness ==
    /\ Returned
    /\ driver = [pc |-> "read", i |-> 1]
    /\ entry = [x \in DOMAIN player |->
                    SubSeq(player[x].opponents, 1, Len(entry[x]))]
    /\ \E u \in DOMAIN pairings :
        /\ ~Contains(entry[pairings[u].home], pairings[u].away)
        /\ \E c \in Candidates(pairings, uuids + 1 - Cardinality(DOMAIN pairings), u,
                               entry, SelectSeq(players, LAMBDA x : x # bye)) :
            player[c].match_points < player[pairings[u].away].match_points

\* C28: a home for which the scan finds no remaining competitor outside its
\* history gets no Pairing: every pairing a pass constructs has an away that
\* was a remaining competitor outside home's history.
C28_NoPairingWithoutCandidate ==
    [][pc = "pairing" =>
        \A u \in DOMAIN pairings' :
            pairings'[u].away \in
                Candidates(pairings', uuids + 1, u, Histories(player), players)]_vars


\* The other sides of the returned pairings that x is in
OtherSides(list, x) ==
    {list[i][3] : i \in {j \in 1 .. Len(list) : list[j][2] = x}} \cup
    {list[i][2] : i \in {j \in 1 .. Len(list) : list[j][3] = x}}

\* C29: after next_round has returned a pairing list, the history of a
\* competitor in a returned pairing is its history at the call plus exactly
\* one entry, the other side of that pairing, and every other history is as
\* it was at the call; discarded passes leave no entry.
C29_OneEntryPerReturn ==
    Returned =>
        \A x \in DOMAIN player :
            IF PairingsOf(ret.list, x) = {}
            THEN player[x].opponents = entry[x]
            ELSE \E y \in OtherSides(ret.list, x) :
                    player[x].opponents = Append(entry[x], y)


\* The competitors of the queue who have met everyone else in the queue
Saturated(pl, roster) ==
    {x \in Range(roster) :
        \A y \in Range(roster) \ {x} : Contains(pl[x].opponents, y)}

\* C30: next_round always returns.  A pass is accepted only when at most one
\* popped home finds nobody outside its history, and a competitor who has met
\* everyone in the queue is never removed by a scan, so it is such a home or
\* the last one popped: with three of them no order of the queue is accepted,
\* now or after any further pass.  So whenever the retry loop is running,
\* fewer than three competitors of the queue have met everyone else in it.
C30_AcceptingOrderExists ==
    pc = "pairing" => Cardinality(Saturated(player, players)) < 3


\* The roster competitors without a bye that have the minimum match points
\* among the roster competitors without a bye
MinimalEligible(pl, roster) ==
    {x \in Range(roster) :
        /\ ~pl[x].has_bye
        /\ \A y \in Range(roster) : ~pl[y].has_bye => pl[x].match_points <= pl[y].match_points}

\* C31: the competitor granted the bye has, at the grant, the minimum match
\* points among the roster competitors with has_bye = false, and every such
\* minimum competitor is chosen by some outcome of the shuffle.
C31_ByeToMinimum ==
    [][(pc = "idle" /\ pc' = "pairing") =>
        /\ bye' # 0 => bye' \in MinimalEligible(player, players)
        /\ needs_bye =>
            \A x \in MinimalEligible(player, players) :
                \E seed \in 0 .. (Factorial(Len(players)) - 1) :
                    grant_bye(player, players, needs_bye, seed).bye = x]_vars

\* C31 witness: a bye has been granted while another competitor without a bye
\* had more match points than the recipient had.
C31_Witness ==
    /\ pc = "pairing"
    /\ bye # 0
    /\ \E x \in Range(players) :
        ~player[x].has_bye /\ player[x].match_points > player[bye].match_points - 3


\* C32: a returned pairing list has floor(active roster size / 2) entries (the
\* active roster is the roster without the round's bye recipient), its
\* identifiers are exactly the keys of the pairing table, one entry each, and
\* every entry carries the home and the away of its pairing.
C32_ListMatchesTable ==
    Returned =>
        LET active == Len(players) - (IF bye # 0 THEN 1 ELSE 0)
        IN  /\ Len(ret.list) = active \div 2
            /\ {ret.list[i][1] : i \in 1 .. Len(ret.list)} = DOMAIN pairings
            /\ Cardinality(DOMAIN pairings) = Len(ret.list)
            /\ \A i \in 1 .. Len(ret.list) :
                /\ ret.list[i][2] = pairings[ret.list[i][1]].home
                /\ ret.list[i][3] = pairings[ret.list[i][1]].away

\* C32 witness: round 2 of nine competitors has returned four pairings, the
\* ninth competitor sitting out.
C32_Witness ==
    /\ Returned
    /\ NumPlayers = 9
    /\ current_round = 2
    /\ bye # 0
    /\ Len(ret.list) = 4


\* C33: after every next_round call, whether it returned a list or None, the
\* roster holds each of the N original competitors exactly once: the bye
\* recipient taken out for the round is back and nobody is lost or doubled.
C33_RosterComplete ==
    (pc = "idle" /\ ret.tag # "NoCall") =>
        /\ Len(players) = NumPlayers
        /\ Range(players) = DOMAIN player

\* C33 witness: next_round has returned for five competitors with the bye
\* recipient pushed back at the end of the roster.
C33_Witness ==
    /\ Returned
    /\ NumPlayers = 5
    /\ bye # 0
    /\ players[Len(players)] = bye
    /\ player[bye].has_bye


\* How often y occurs in the history s
Occurrences(s, y) == Cardinality({i \in 1 .. Len(s) : s[i] = y})

\* C34: in every reachable state B occurs in A's opponent history as often as
\* A occurs in B's, and nobody occurs in its own history.
C34_HistorySymmetric ==
    \A x \in DOMAIN player :
        /\ Occurrences(player[x].opponents, x) = 0
        /\ \A y \in DOMAIN player :
            Occurrences(player[x].opponents, y) = Occurrences(player[y].opponents, x)

\* C34 witness: two competitors that were paired twice hold each other twice.
C34_Witness ==
    \E x \in DOMAIN player, y \in DOMAIN player :
        /\ x # y
        /\ Occurrences(player[x].opponents, y) = 2
        /\ Occurrences(player[y].opponents, x) = 2


\* C35: in every pairing a pass of next_round constructs, home has at least
\* as many match points as away at that time.
C35_HomeNotBelowAway ==
    [][pc = "pairing" =>
        \A u \in DOMAIN pairings' :
            player[pairings'[u].home].match_points >=
                player[pairings'[u].away].match_points]_vars

\* C35 witness: next_round has just returned (no result recorded yet) a
\* pairing whose home has more match points than its away.
C35_Witness ==
    /\ Returned
    /\ driver = [pc |-> "read", i |-> 1]
    /\ \E u \in DOMAIN pairings :
        player[pairings[u].home].match_points > player[pairings[u].away].match_points


RangeOffenders(h, a, d) ==
    (IF h \in 0 .. 2 THEN {} ELSE {h}) \cup
    (IF a \in 0 .. 2 THEN {} ELSE {a}) \cup
    (IF d \in 0 .. 3 THEN {} ELSE {d})

\* C37: for all u8 arguments, end_match forms home_score + away_score + drawn
\* only when the three range checks have passed: a call with an argument out
\* of range reports one of those arguments, and otherwise the sum is at most
\* 7, below 2^8, and the call is decided by the exact sum.
C37_SumNeverWraps ==
    [][calls' = calls + 1 =>
        LET h == args'.home_score
            a == args'.away_score
            d == args'.drawn
        IN  IF RangeOffenders(h, a, d) # {}
            THEN result'.tag = "OutOfRange" /\ result'.value \in RangeOffenders(h, a, d)
            ELSE /\ h + a + d <= 7
                 /\ h + a + d < U8
                 /\ result' = IF h + a + d \in 1 .. 3 THEN Ok ELSE OutOfRange(h + a + d)]_vars

\* C37 witness: end_match(2, 2, 3), the largest arguments that pass their own
\* checks, was rejected with the sum 7.
C37_Witness ==
    /\ args.home_score = 2 /\ args.away_score = 2 /\ args.drawn = 3
    /\ result = OutOfRange(7)

====
